---- MODULE Spec2Model ----
(***************************************************************************)
(* Model of package azauth (github.com/alexeldeib/azauth).                 *)
(*                                                                         *)
(* The package resolves an Azure authorizer by trying three credential     *)
(* sources in order (file, cli, environment), caches the resource          *)
(* management authorizer on the Config and injects authorizers into        *)
(* autorest clients.  Every exported method is one atomic action: the      *)
(* package is synchronous and takes no locks.  The three SDK constructors  *)
(* (auth.NewAuthorizerFrom...WithResource) are external; each call's       *)
(* success or failure is an input of the calling action.                   *)
(***************************************************************************)
EXTENDS Integers, Sequences, FiniteSets, TLC

(* ----------------------------- bounds --------------------------------- *)

\* Authorizer instances the SDK constructors may allocate in one behaviour.
MaxHandles == 2

\* Longest client user-agent string (in characters) a call may produce.
MaxUserAgentLen == 7

\* Longest option list handed to New.
MaxOpts == 1

(* --------------------------- value domains ---------------------------- *)

\* The three credential sources, named as the logger's "method" field.
Methods == {"file", "cli", "env"}

\* Resource manager endpoints a loaded auth.EnvironmentSettings may carry
\* (the public cloud's).
Endpoints == {"https://management.azure.com/"}

\* Resource strings callers pass; the package never inspects them.
Resources == Endpoints \cup {"https://vault.azure.net"}

\* User-agent extensions callers pass (the empty one is refused by autorest).
Agents == {"", "ua"}

\* Success (TRUE) or failure (FALSE) of each SDK constructor during one call.
Outcomes == [Methods -> BOOLEAN]

(* ------------------------------ errors -------------------------------- *)

errorMsg == "no authorizer available"

\* Go's nil error.
NilError == [type |-> "nil", msg |-> ""]

\* NoAuthorizerError{}; msg is what its Error() method returns.
NoAuthorizerError == [type |-> "NoAuthorizerError", msg |-> errorMsg]

\* The error an SDK constructor returns when its source is unavailable.
SourceError(method) == [type |-> "SourceError", msg |-> method]

\* The error auth.GetSettingsFromEnvironment returns.
SettingsError == [type |-> "SettingsError", msg |-> "settings"]

\* The error zap.NewProduction returns.
LoggerError == [type |-> "LoggerError", msg |-> "zap"]

\* The error autorest.Client.AddToUserAgent returns for an empty extension.
ExtensionError == [type |-> "ExtensionError", msg |-> "Extension was empty"]

(* ---------------------------- authorizers ----------------------------- *)

\* Go's nil autorest.Authorizer (and the nil *autorest.Authorizer).
NilAuthorizer == [source |-> "nil", resource |-> "", id |-> 0]

\* The authorizer instance number id, built by source for a resource.
Authorizer(source, resource, id) == [source |-> source, resource |-> resource, id |-> id]

(* --------------------------- SDK constructors ------------------------- *)

\* What one SDK constructor call yields: a fresh authorizer for the resource
\* it was given and a nil error, or a nil authorizer and the source's error.
\* call records the invocation (which constructor, with which resource).
NewAuthorizer(method, resource, outcome, id) ==
    [authorizer |-> IF outcome[method] THEN Authorizer(method, resource, id) ELSE NilAuthorizer,
     err        |-> IF outcome[method] THEN NilError ELSE SourceError(method),
     call       |-> [method |-> method, resource |-> resource]]

NewAuthorizerFromFileWithResource(resource, outcome, id) ==
    NewAuthorizer("file", resource, outcome, id)

NewAuthorizerFromCLIWithResource(resource, outcome, id) ==
    NewAuthorizer("cli", resource, outcome, id)

NewAuthorizerFromEnvironmentWithResource(resource, outcome, id) ==
    NewAuthorizer("env", resource, outcome, id)

(* ------------------------------ logging ------------------------------- *)

\* A line of the zap production logger.  ts is the line's time stamp, in
\* the call's own clock: the number of SDK constructor calls made so far.

\* c.Sugar.With("method", m).Info("ok")
LogInfo(method, ts) == [method |-> method, level |-> "info", msg |-> "ok", ts |-> ts]

\* c.Sugar.With("method", m).Error(err)
LogError(method, err, ts) ==
    [method |-> method, level |-> "error", msg |-> err.msg, ts |-> ts]

(* ------------------------ GetAuthorizerForResource -------------------- *)

\* Variant: the cli source is tried before the file source.
GetAuthorizerForResource_CliFirst(resource, outcome, id) ==
    LET f == NewAuthorizerFromFileWithResource(resource, outcome, id)
        c == NewAuthorizerFromCLIWithResource(resource, outcome, id)
        e == NewAuthorizerFromEnvironmentWithResource(resource, outcome, id)
    IN  IF c.err = NilError
        THEN [authorizer |-> c.authorizer, err |-> c.err,
              calls |-> <<c.call>>, log |-> <<LogInfo("cli", 1)>>]
        ELSE IF f.err = NilError
        THEN [authorizer |-> f.authorizer, err |-> f.err,
              calls |-> <<c.call, f.call>>,
              log |-> <<LogError("cli", c.err, 1), LogInfo("file", 2)>>]
        ELSE IF e.err = NilError
        THEN [authorizer |-> e.authorizer, err |-> e.err,
              calls |-> <<c.call, f.call, e.call>>,
              log |-> <<LogError("cli", c.err, 1), LogError("file", f.err, 2), LogInfo("env", 3)>>]
        ELSE [authorizer |-> NilAuthorizer, err |-> NoAuthorizerError,
              calls |-> <<c.call, f.call, e.call>>,
              log |-> <<LogError("cli", c.err, 1), LogError("file", f.err, 2),
                        LogError("env", e.err, 3)>>]

\* Variant: a success does not return; the later sources are still invoked
\* and the first authorizer obtained is returned at the end.
GetAuthorizerForResource_NoShortCircuit(resource, outcome, id) ==
    LET f == NewAuthorizerFromFileWithResource(resource, outcome, id)
        c == NewAuthorizerFromCLIWithResource(resource, outcome, id)
        e == NewAuthorizerFromEnvironmentWithResource(resource, outcome, id)
        entry(r, m, t) == IF r.err = NilError THEN LogInfo(m, t) ELSE LogError(m, r.err, t)
        first == IF f.err = NilError THEN f ELSE IF c.err = NilError THEN c ELSE e
    IN  [authorizer |-> first.authorizer,
         err        |-> IF first.err = NilError THEN NilError ELSE NoAuthorizerError,
         calls      |-> <<f.call, c.call, e.call>>,
         log        |-> <<entry(f, "file", 1), entry(c, "cli", 2), entry(e, "env", 3)>>]

\* Variant: total failure returns the last source's own error.
GetAuthorizerForResource_LastError(resource, outcome, id) ==
    LET f == NewAuthorizerFromFileWithResource(resource, outcome, id)
        c == NewAuthorizerFromCLIWithResource(resource, outcome, id)
        e == NewAuthorizerFromEnvironmentWithResource(resource, outcome, id)
    IN  IF f.err = NilError
        THEN [authorizer |-> f.authorizer, err |-> f.err,
              calls |-> <<f.call>>, log |-> <<LogInfo("file", 1)>>]
        ELSE IF c.err = NilError
        THEN [authorizer |-> c.authorizer, err |-> c.err,
              calls |-> <<f.call, c.call>>,
              log |-> <<LogError("file", f.err, 1), LogInfo("cli", 2)>>]
        ELSE [authorizer |-> e.authorizer, err |-> e.err,
              calls |-> <<f.call, c.call, e.call>>,
              log |-> <<LogError("file", f.err, 1), LogError("cli", c.err, 2),
                        IF e.err = NilError THEN LogInfo("env", 3) ELSE LogError("env", e.err, 3)>>]

\* Variant: the sources' errors are collected and logged only when the call
\* is about to return.
GetAuthorizerForResource_LogLate(resource, outcome, id) ==
    LET f == NewAuthorizerFromFileWithResource(resource, outcome, id)
        c == NewAuthorizerFromCLIWithResource(resource, outcome, id)
        e == NewAuthorizerFromEnvironmentWithResource(resource, outcome, id)
    IN  IF f.err = NilError
        THEN [authorizer |-> f.authorizer, err |-> f.err,
              calls |-> <<f.call>>, log |-> <<LogInfo("file", 1)>>]
        ELSE IF c.err = NilError
        THEN [authorizer |-> c.authorizer, err |-> c.err,
              calls |-> <<f.call, c.call>>,
              log |-> <<LogError("file", f.err, 2), LogInfo("cli", 2)>>]
        ELSE IF e.err = NilError
        THEN [authorizer |-> e.authorizer, err |-> e.err,
              calls |-> <<f.call, c.call, e.call>>,
              log |-> <<LogError("file", f.err, 3), LogError("cli", c.err, 3),
                        LogInfo("env", 3)>>]
        ELSE [authorizer |-> NilAuthorizer, err |-> NoAuthorizerError,
              calls |-> <<f.call, c.call, e.call>>,
              log |-> <<LogError("file", f.err, 3), LogError("cli", c.err, 3),
                        LogError("env", e.err, 3)>>]

\* GetAuthorizerForResource(resource): file, then cli, then environment.
\* The first nil error returns that source's authorizer at once; every
\* failure is logged and the next source is tried; after three failures the
\* result is (nil, NoAuthorizerError{}).  calls and log list, in order, the
\* SDK constructors invoked and the log lines written during the call.
GetAuthorizerForResource(resource, outcome, id) ==
    LET f == NewAuthorizerFromFileWithResource(resource, outcome, id)
        c == NewAuthorizerFromCLIWithResource(resource, outcome, id)
        e == NewAuthorizerFromEnvironmentWithResource(resource, outcome, id)
    IN  IF f.err = NilError
        THEN [authorizer |-> f.authorizer, err |-> f.err,
              calls |-> <<f.call>>, log |-> <<LogInfo("file", 1)>>]
        ELSE IF c.err = NilError
        THEN [authorizer |-> c.authorizer, err |-> c.err,
              calls |-> <<f.call, c.call>>,
              log |-> <<LogError("file", f.err, 1), LogInfo("cli", 2)>>]
        ELSE IF e.err = NilError
        THEN [authorizer |-> e.authorizer, err |-> e.err,
              calls |-> <<f.call, c.call, e.call>>,
              log |-> <<LogError("file", f.err, 1), LogError("cli", c.err, 2), LogInfo("env", 3)>>]
        ELSE [authorizer |-> NilAuthorizer, err |-> NoAuthorizerError,
              calls |-> <<f.call, c.call, e.call>>,
              log |-> <<LogError("file", f.err, 1), LogError("cli", c.err, 2),
                        LogError("env", e.err, 3)>>]

(* ----------------------------- the cache ------------------------------ *)

\* c.Sugar.Info("using cached arm authorizer")
LogCached ==
    [method |-> "", level |-> "info", msg |-> "using cached arm authorizer", ts |-> 0]

\* Variant: the cached authorizer is ignored and resolution always runs.
GetArmAuthorizer_NoCache(arm, endpoint, outcome, id) ==
    GetAuthorizerForResource(endpoint, outcome, id)

\* GetArmAuthorizer(): a non-nil c.armAuthorizer is returned as it is, with
\* one log line and no SDK call; otherwise the call delegates to
\* GetAuthorizerForResource(c.settings.Environment.ResourceManagerEndpoint).
\* It does not assign c.armAuthorizer.
GetArmAuthorizer(arm, endpoint, outcome, id) ==
    IF arm # NilAuthorizer
    THEN [authorizer |-> arm, err |-> NilError, calls |-> <<>>, log |-> <<LogCached>>]
    ELSE GetAuthorizerForResource(endpoint, outcome, id)

\* Variant: a failed resolution is not reported (nil is returned instead).
setArmAuthorizer_SwallowError(arm, endpoint, outcome, id) ==
    LET r == GetArmAuthorizer(arm, endpoint, outcome, id)
    IN  IF r.err # NilError
        THEN [armAuthorizer |-> arm, err |-> NilError, calls |-> r.calls, log |-> r.log]
        ELSE [armAuthorizer |-> r.authorizer, err |-> NilError,
              calls |-> r.calls, log |-> r.log]

\* Variant: the authorizer obtained is never assigned to the field.
setArmAuthorizer_NoStore(arm, endpoint, outcome, id) ==
    LET r == GetArmAuthorizer(arm, endpoint, outcome, id)
    IN  [armAuthorizer |-> arm, err |-> r.err, calls |-> r.calls, log |-> r.log]

\* Variant: the cached authorizer is not consulted; every call resolves
\* again and stores what it obtained.
setArmAuthorizer_ResolveAlways(arm, endpoint, outcome, id) ==
    LET r == GetAuthorizerForResource(endpoint, outcome, id)
    IN  IF r.err # NilError
        THEN [armAuthorizer |-> arm, err |-> r.err, calls |-> r.calls, log |-> r.log]
        ELSE [armAuthorizer |-> r.authorizer, err |-> NilError,
              calls |-> r.calls, log |-> r.log]

\* setArmAuthorizer(): on an error of GetArmAuthorizer the error is returned
\* and the field is left alone; otherwise c.armAuthorizer = &armAuthorizer.
\* armAuthorizer is the field's value after the call.
setArmAuthorizer(arm, endpoint, outcome, id) ==
    LET r == GetArmAuthorizer(arm, endpoint, outcome, id)
    IN  IF r.err # NilError
        THEN [armAuthorizer |-> arm, err |-> r.err, calls |-> r.calls, log |-> r.log]
        ELSE [armAuthorizer |-> r.authorizer, err |-> NilError,
              calls |-> r.calls, log |-> r.log]

\* SetAuthorizers(): returns setArmAuthorizer's error, or nil.
SetAuthorizers(arm, endpoint, outcome, id) ==
    LET r == setArmAuthorizer(arm, endpoint, outcome, id)
    IN  IF r.err # NilError
        THEN r
        ELSE [r EXCEPT !.err = NilError]

(* ------------------------------ the client ---------------------------- *)

\* autorest.Client.AddToUserAgent(extension): a non-empty extension is
\* appended after one space; an empty one leaves the string and is an error.
AddToUserAgent(cl, extension) ==
    IF extension # ""
    THEN [client |-> [cl EXCEPT !.UserAgent = cl.UserAgent \o " " \o extension],
          err    |-> NilError]
    ELSE [client |-> cl, err |-> ExtensionError]

\* Variant: the authorizer is assigned to the client before the error check.
AuthorizeClientForResource_AssignFirst(resource, cl, agent, outcome, id) ==
    LET r == GetAuthorizerForResource(resource, outcome, id)
        assigned == [cl EXCEPT !.Authorizer = r.authorizer]
    IN  IF r.err = NilError
        THEN LET a == AddToUserAgent(assigned, agent)
             IN  [client |-> a.client, err |-> a.err, calls |-> r.calls, log |-> r.log]
        ELSE [client |-> assigned, err |-> NilError, calls |-> r.calls, log |-> r.log]

\* Variant: the resolved authorizer is not installed; only the user agent
\* is extended.
AuthorizeClientForResource_NoAssign(resource, cl, agent, outcome, id) ==
    LET r == GetAuthorizerForResource(resource, outcome, id)
    IN  IF r.err = NilError
        THEN LET a == AddToUserAgent(cl, agent)
             IN  [client |-> a.client, err |-> a.err, calls |-> r.calls, log |-> r.log]
        ELSE [client |-> cl, err |-> NilError, calls |-> r.calls, log |-> r.log]

\* AuthorizeClientForResource(resource, client, userAgent).  The if statement
\* declares its own authorizer and err (:=), so the function's named result
\* err is never assigned.  On a nil inner err the client's Authorizer is set
\* and the result is AddToUserAgent's.  Otherwise the bare return yields the
\* named result, which still holds its zero value nil.
AuthorizeClientForResource(resource, cl, agent, outcome, id) ==
    LET r == GetAuthorizerForResource(resource, outcome, id)
    IN  IF r.err = NilError
        THEN LET a == AddToUserAgent([cl EXCEPT !.Authorizer = r.authorizer], agent)
             IN  [client |-> a.client, err |-> a.err, calls |-> r.calls, log |-> r.log]
        ELSE [client |-> cl, err |-> NilError, calls |-> r.calls, log |-> r.log]

(* ------------------- the file-only resolver (azauth.go) --------------- *)

\* GetFileAuthorizerForResource(resource) of src/azauth.go: only the file
\* source is tried, and it is given c.env.ResourceManagerEndpoint, not the
\* resource parameter.
GetFileAuthorizerForResource(resource, endpoint, outcome, id) ==
    LET f == NewAuthorizerFromFileWithResource(endpoint, outcome, id)
    IN  IF f.err = NilError
        THEN [authorizer |-> f.authorizer, err |-> f.err,
              calls |-> <<f.call>>, log |-> <<LogInfo("file", 1)>>]
        ELSE [authorizer |-> NilAuthorizer, err |-> NoAuthorizerError,
              calls |-> <<f.call>>, log |-> <<LogError("file", f.err, 1)>>]

(* ----------------------------- construction --------------------------- *)

\* The option UserAgent(userAgent) applied to a Config: sets c.userAgent.
UserAgent(c, agent) == [c EXCEPT !.userAgent = agent]

\* for _, opt := range opts { c = opt(c) }
RECURSIVE ApplyOptions(_, _)
ApplyOptions(c, opts) ==
    IF opts = <<>> THEN c
    ELSE ApplyOptions(UserAgent(c, Head(opts)), Tail(opts))

\* The nil *Config.
NilConfig == [config |-> "nil", userAgent |-> "", settings |-> "",
              armAuthorizer |-> NilAuthorizer]

\* Variant: a failure of the settings loader is not checked; the Config is
\* built (with no endpoint) and the options run.
New_IgnoreSettingsError(settingsOk, loggerOk, endpoint, opts) ==
    IF ~loggerOk THEN [c |-> NilConfig, err |-> LoggerError]
    ELSE [c   |-> ApplyOptions([config |-> "ok", userAgent |-> "azauth",
                                settings |-> IF settingsOk THEN endpoint ELSE "",
                                armAuthorizer |-> NilAuthorizer], opts),
          err |-> NilError]

\* New(opts...): settings are loaded first, then the logger is built; either
\* failure returns (nil, err) before any option runs.  Otherwise the Config
\* starts with userAgent "azauth", the loaded settings and a nil
\* armAuthorizer, and the options are applied in order.
New(settingsOk, loggerOk, endpoint, opts) ==
    IF ~settingsOk THEN [c |-> NilConfig, err |-> SettingsError]
    ELSE IF ~loggerOk THEN [c |-> NilConfig, err |-> LoggerError]
    ELSE [c   |-> ApplyOptions([config |-> "ok", userAgent |-> "azauth",
                                settings |-> endpoint,
                                armAuthorizer |-> NilAuthorizer], opts),
          err |-> NilError]

(* -------------------------------- state ------------------------------- *)

VARIABLES
    c,        \* the *Config New returned (NilConfig until New succeeds)
    client,   \* the caller's autorest.Client: Authorizer and UserAgent
    nextId,   \* authorizer instances allocated so far
    req,      \* the last call: method name and arguments
    calls,    \* SDK constructors invoked by the last call, in order
    log,      \* log lines written by the last call, in order
    ret,      \* what the last call returned
    goroutines, \* concurrent callers of one Config: where each is in its call
    writer    \* the goroutine whose store c.armAuthorizer holds (0: none)

vars == <<c, client, nextId, req, calls, log, ret, goroutines, writer>>

\* The state that only concurrent callers use.
raceVars == <<goroutines, writer>>

\* A client's user agent before this package touches it.
InitialAgents == {"Go"}

NoOutcome == [m \in Methods |-> FALSE]

\* Option lists: UserAgent(...) options, at most MaxOpts of them.
OptionLists == UNION {[1..n -> Agents] : n \in 0..MaxOpts}

Request(op, resource, agent, outcome) ==
    [op |-> op, resource |-> resource, agent |-> agent, outcome |-> outcome,
     settingsOk |-> TRUE, loggerOk |-> TRUE, opts |-> <<>>]

\* Authorizer instances a call allocated: one per successful SDK call.
Allocations(cs, outcome) == Cardinality({i \in DOMAIN cs : outcome[cs[i].method]})

Init ==
    /\ c = NilConfig
    /\ client \in [Authorizer : {NilAuthorizer}, UserAgent : InitialAgents]
    /\ nextId = 0
    /\ req = Request("none", "", "", NoOutcome)
    /\ calls = <<>>
    /\ log = <<>>
    /\ ret = [authorizer |-> NilAuthorizer, err |-> NilError]
    /\ goroutines = <<>>
    /\ writer = 0

(* ------------------------------- actions ------------------------------ *)

\* c, err := New(opts...)
CallNew(settingsOk, loggerOk, endpoint, opts) ==
    /\ c.config = "nil"
    /\ LET r == New(settingsOk, loggerOk, endpoint, opts)
       IN  /\ c' = r.c
           /\ ret' = [authorizer |-> NilAuthorizer, err |-> r.err]
    /\ req' = [op |-> "New", resource |-> endpoint, agent |-> "", outcome |-> NoOutcome,
               settingsOk |-> settingsOk, loggerOk |-> loggerOk, opts |-> opts]
    /\ calls' = <<>>
    /\ log' = <<>>
    /\ UNCHANGED <<client, nextId>>
    /\ UNCHANGED raceVars

\* Variant: a successful resolution is also remembered in c.armAuthorizer.
CallGetAuthorizerForResource_Caches(resource, outcome) ==
    /\ c.config = "ok"
    /\ LET r == GetAuthorizerForResource(resource, outcome, nextId + 1)
       IN  /\ nextId + Allocations(r.calls, outcome) <= MaxHandles
           /\ nextId' = nextId + Allocations(r.calls, outcome)
           /\ ret' = [authorizer |-> r.authorizer, err |-> r.err]
           /\ calls' = r.calls
           /\ log' = r.log
           /\ c' = IF r.err = NilError THEN [c EXCEPT !.armAuthorizer = r.authorizer] ELSE c
    /\ req' = Request("GetAuthorizerForResource", resource, "", outcome)
    /\ UNCHANGED client
    /\ UNCHANGED raceVars

\* authorizer, err := c.GetAuthorizerForResource(resource)
CallGetAuthorizerForResource(resource, outcome) ==
    /\ c.config = "ok"
    /\ LET r == GetAuthorizerForResource(resource, outcome, nextId + 1)
       IN  /\ nextId + Allocations(r.calls, outcome) <= MaxHandles
           /\ nextId' = nextId + Allocations(r.calls, outcome)
           /\ ret' = [authorizer |-> r.authorizer, err |-> r.err]
           /\ calls' = r.calls
           /\ log' = r.log
    /\ req' = Request("GetAuthorizerForResource", resource, "", outcome)
    /\ UNCHANGED <<c, client>>
    /\ UNCHANGED raceVars

\* authorizer, err := c.GetArmAuthorizer()
CallGetArmAuthorizer(outcome) ==
    /\ c.config = "ok"
    /\ LET r == GetArmAuthorizer(c.armAuthorizer, c.settings, outcome, nextId + 1)
       IN  /\ nextId + Allocations(r.calls, outcome) <= MaxHandles
           /\ nextId' = nextId + Allocations(r.calls, outcome)
           /\ ret' = [authorizer |-> r.authorizer, err |-> r.err]
           /\ calls' = r.calls
           /\ log' = r.log
    /\ req' = Request("GetArmAuthorizer", "", "", outcome)
    /\ UNCHANGED <<c, client>>
    /\ UNCHANGED raceVars

\* err := c.SetAuthorizers()
CallSetAuthorizers(outcome) ==
    /\ c.config = "ok"
    /\ LET r == SetAuthorizers(c.armAuthorizer, c.settings, outcome, nextId + 1)
       IN  /\ nextId + Allocations(r.calls, outcome) <= MaxHandles
           /\ nextId' = nextId + Allocations(r.calls, outcome)
           /\ c' = [c EXCEPT !.armAuthorizer = r.armAuthorizer]
           /\ ret' = [authorizer |-> NilAuthorizer, err |-> r.err]
           /\ calls' = r.calls
           /\ log' = r.log
    /\ req' = Request("SetAuthorizers", "", "", outcome)
    /\ UNCHANGED client
    /\ UNCHANGED raceVars

\* err := c.AuthorizeClientForResource(resource, &client, userAgent)
CallAuthorizeClientForResource(resource, agent, outcome) ==
    /\ c.config = "ok"
    /\ LET r == AuthorizeClientForResource(resource, client, agent, outcome, nextId + 1)
       IN  /\ Len(r.client.UserAgent) <= MaxUserAgentLen
           /\ nextId + Allocations(r.calls, outcome) <= MaxHandles
           /\ nextId' = nextId + Allocations(r.calls, outcome)
           /\ client' = r.client
           /\ ret' = [authorizer |-> NilAuthorizer, err |-> r.err]
           /\ calls' = r.calls
           /\ log' = r.log
    /\ req' = Request("AuthorizeClientForResource", resource, agent, outcome)
    /\ UNCHANGED c
    /\ UNCHANGED raceVars

\* authorizer, err := c.GetFileAuthorizerForResource(resource)   (azauth.go)
CallGetFileAuthorizerForResource(resource, outcome) ==
    /\ c.config = "ok"
    /\ LET r == GetFileAuthorizerForResource(resource, c.settings, outcome, nextId + 1)
       IN  /\ nextId + Allocations(r.calls, outcome) <= MaxHandles
           /\ nextId' = nextId + Allocations(r.calls, outcome)
           /\ ret' = [authorizer |-> r.authorizer, err |-> r.err]
           /\ calls' = r.calls
           /\ log' = r.log
    /\ req' = Request("GetFileAuthorizerForResource", resource, "", outcome)
    /\ UNCHANGED <<c, client>>
    /\ UNCHANGED raceVars

Next ==
    \/ \E settingsOk \in BOOLEAN, loggerOk \in BOOLEAN, endpoint \in Endpoints,
          opts \in OptionLists :
          CallNew(settingsOk, loggerOk, endpoint, opts)
    \/ \E resource \in Resources, outcome \in Outcomes :
          CallGetAuthorizerForResource(resource, outcome)
    \/ \E outcome \in Outcomes : CallGetArmAuthorizer(outcome)
    \/ \E outcome \in Outcomes : CallSetAuthorizers(outcome)
    \/ \E resource \in Resources, agent \in Agents, outcome \in Outcomes :
          CallAuthorizeClientForResource(resource, agent, outcome)
    \/ \E resource \in Resources, outcome \in Outcomes :
          CallGetFileAuthorizerForResource(resource, outcome)

Spec == Init /\ [][Next]_vars

(* ======================= properties of the resolver =================== *)

\* The documented priority of the sources.
Priority == <<"file", "cli", "env">>

SomeSucceeds(outcome) == \E m \in Methods : outcome[m]

\* Position in Priority of the first source that succeeds (4 when none does).
FirstOk(outcome) ==
    IF outcome["file"] THEN 1 ELSE IF outcome["cli"] THEN 2
    ELSE IF outcome["env"] THEN 3 ELSE 4

Resolved == req.op = "GetAuthorizerForResource"

\* C1: whenever at least one source would succeed, GetAuthorizerForResource
\* returns a nil error and the authorizer built during this call by the
\* first succeeding source in the order file, cli, env (so the file source's
\* authorizer whenever the file source succeeds).
C1_PriorityWinner ==
    (Resolved /\ SomeSucceeds(req.outcome)) =>
        /\ ret.err = NilError
        /\ ret.authorizer = Authorizer(Priority[FirstOk(req.outcome)], req.resource, nextId)
        /\ (req.outcome["file"] => ret.authorizer.source = "file")

\* C1 witness: file fails while cli and env would both succeed; cli wins.
C1_Witness ==
    /\ Resolved
    /\ ~req.outcome["file"] /\ req.outcome["cli"] /\ req.outcome["env"]
    /\ ret.authorizer.source = "cli"

\* C2: within one GetAuthorizerForResource call the sources are invoked in
\* the order file, cli, env, each only after all sources before it failed,
\* none after the first success; with a success the number of invocations is
\* the position of the first succeeding source.
C2_OrderedShortCircuit ==
    Resolved =>
        /\ Len(calls) <= Len(Priority)
        /\ \A i \in DOMAIN calls :
              /\ calls[i].method = Priority[i]
              /\ \A j \in 1..(i - 1) : ~req.outcome[calls[j].method]
        /\ SomeSucceeds(req.outcome) => Len(calls) = FirstOk(req.outcome)
        /\ req.outcome["file"] => calls = <<[method |-> "file", resource |-> req.resource]>>

\* C2 witness: the file source succeeds while cli and env would succeed too,
\* and exactly one invocation was made.
C2_Witness ==
    /\ Resolved
    /\ req.outcome["file"] /\ req.outcome["cli"] /\ req.outcome["env"]
    /\ Len(calls) = 1

\* C3: when all three sources fail, GetAuthorizerForResource returns a nil
\* authorizer with NoAuthorizerError, having invoked each source exactly once.
C3_AllFail ==
    (Resolved /\ ~SomeSucceeds(req.outcome)) =>
        /\ ret.authorizer = NilAuthorizer
        /\ ret.err = NoAuthorizerError
        /\ ret.err.msg = errorMsg
        /\ Len(calls) = 3
        /\ \A m \in Methods : Cardinality({i \in DOMAIN calls : calls[i].method = m}) = 1

\* C3 witness: a resolution in which every source failed.
C3_Witness ==
    /\ Resolved
    /\ ~SomeSucceeds(req.outcome)
    /\ Len(calls) = 3
    /\ ret.err = NoAuthorizerError

(* ===================== properties of the client binder ================ *)

Bound == req.op = "AuthorizeClientForResource"

\* C4: when every source fails, AuthorizeClientForResource returns the
\* resolver's NoAuthorizerError to its caller; it never returns nil for a
\* call in which no authorizer was obtained.
C4_BindReturnsFailure ==
    (Bound /\ ~SomeSucceeds(req.outcome)) => ret.err = NoAuthorizerError

\* C5: an AuthorizeClientForResource call whose resolution fails leaves the
\* client's Authorizer and UserAgent as they were before the call.
C5_FailedBindKeepsClient ==
    [][(Bound' /\ ~SomeSucceeds(req'.outcome)) =>
          /\ client'.Authorizer = client.Authorizer
          /\ client'.UserAgent = client.UserAgent]_vars

\* C5 witness: a failed call on a client that an earlier call had bound, so
\* there was an authorizer and an extended user agent to preserve.
C5_Witness ==
    /\ Bound
    /\ ~SomeSucceeds(req.outcome)
    /\ client.Authorizer # NilAuthorizer
    /\ client.UserAgent # "Go"

\* C6: AuthorizeClientForResource is atomic over the client's two fields for
\* every input: after a call either the Authorizer is the resolved one and
\* userAgent was appended, or neither field changed; and nil is returned
\* exactly in the first case.
C6_BindAtomic ==
    [][Bound' =>
          LET both == /\ SomeSucceeds(req'.outcome)
                      /\ client'.Authorizer =
                            Authorizer(Priority[FirstOk(req'.outcome)], req'.resource, nextId')
                      /\ client'.UserAgent = client.UserAgent \o " " \o req'.agent
              neither == client' = client
          IN  /\ both \/ neither
              /\ (ret'.err = NilError) <=> both]_vars

(* ========================= properties of the cache ==================== *)

CacheEmpty == c.armAuthorizer = NilAuthorizer

\* The authorizer a resolution for the management endpoint yields in a step.
ArmResolved ==
    Authorizer(Priority[FirstOk(req'.outcome)], c.settings, nextId')

\* C7 as claimed: a successful GetArmAuthorizer call leaves the returned
\* authorizer in the cache slot.
C7_GetArmStores ==
    (req.op = "GetArmAuthorizer" /\ ret.err = NilError) => c.armAuthorizer = ret.authorizer

\* C7 amended: a SetAuthorizers call on an empty cache whose resolution
\* succeeds stores the resolved authorizer in the cache slot before it
\* returns, and a GetArmAuthorizer call made while the slot is filled
\* returns that same authorizer and invokes no source.
C7_SetAuthorizersStores ==
    [][/\ (req'.op = "SetAuthorizers" /\ CacheEmpty /\ SomeSucceeds(req'.outcome)) =>
             /\ ret'.err = NilError
             /\ c'.armAuthorizer = ArmResolved
             /\ c'.armAuthorizer # NilAuthorizer
       /\ (req'.op = "GetArmAuthorizer" /\ ~CacheEmpty) =>
             /\ ret'.authorizer = c.armAuthorizer
             /\ calls' = <<>>]_vars

\* C7 witness: GetArmAuthorizer served from a slot SetAuthorizers filled,
\* although every source would have succeeded had it been asked.
C7_Witness ==
    /\ req.op = "GetArmAuthorizer"
    /\ ~CacheEmpty
    /\ \A m \in Methods : req.outcome[m]
    /\ ret.authorizer = c.armAuthorizer
    /\ calls = <<>>

\* C8: with a filled cache slot GetArmAuthorizer returns exactly the cached
\* authorizer and a nil error, invokes no source and allocates nothing,
\* whatever the sources' outcomes would be.
C8_CacheHit ==
    [][(req'.op = "GetArmAuthorizer" /\ ~CacheEmpty) =>
          /\ ret' = [authorizer |-> c.armAuthorizer, err |-> NilError]
          /\ calls' = <<>>
          /\ nextId' = nextId
          /\ c' = c]_vars

\* C8 witness: a hit while every source would fail.
C8_Witness ==
    /\ req.op = "GetArmAuthorizer"
    /\ ~CacheEmpty
    /\ ~SomeSucceeds(req.outcome)
    /\ ret = [authorizer |-> c.armAuthorizer, err |-> NilError]

\* C9: with an empty cache and every source failing, GetArmAuthorizer and
\* SetAuthorizers both return NoAuthorizerError after trying the sources, and
\* the cache slot is still empty afterwards.
C9_FailureNotCached ==
    [][(req'.op \in {"GetArmAuthorizer", "SetAuthorizers"}
           /\ CacheEmpty /\ ~SomeSucceeds(req'.outcome)) =>
          /\ ret' = [authorizer |-> NilAuthorizer, err |-> NoAuthorizerError]
          /\ Len(calls') = 3
          /\ \A i \in DOMAIN calls' : calls'[i].resource = c.settings
          /\ c'.armAuthorizer = NilAuthorizer]_vars

\* C9 witness: a failed SetAuthorizers call that left the slot empty.
C9_Witness ==
    /\ req.op = "SetAuthorizers"
    /\ ~SomeSucceeds(req.outcome)
    /\ ret.err = NoAuthorizerError
    /\ CacheEmpty

(* ===================== the resource given to the sources ============== *)

\* The resource the caller asked for: the resource argument, or the
\* configured management endpoint for the two methods that take none.
RequestedResource ==
    IF req.op \in {"GetArmAuthorizer", "SetAuthorizers"} THEN c.settings ELSE req.resource

\* C10: every source invoked by a call is given the caller's resource
\* unmodified; the configured management endpoint replaces it on no path
\* other than the default one (GetArmAuthorizer, SetAuthorizers).
C10_ResourcePassedThrough ==
    \A i \in DOMAIN calls : calls[i].resource = RequestedResource

(* =============== concurrent callers of one Config (no guard) ========== *)
(* Config takes no lock and uses no atomics, so goroutines that share one  *)
(* Config interleave at the memory accesses of setArmAuthorizer and        *)
(* GetArmAuthorizer: the load of c.armAuthorizer (line 95), the load       *)
(* through it (line 97), the resolution (line 99) and the store (line 87). *)
(* The accesses are a data race.  The field is one word, so a load of it   *)
(* yields nil or a pointer some goroutine stored.  The autorest.Authorizer *)
(* it points to is a two-word interface value written by the storing       *)
(* goroutine just before the store, with nothing ordering the two writes   *)
(* for another goroutine: Go's memory model lets a racing load of it see   *)
(* the written value, the zero value, or a mix of the two.                 *)

\* Goroutines sharing the Config.
MaxCallers == 2

Callers == 1..MaxCallers

\* An interface value of which only one word was seen.
TornAuthorizer == [source |-> "torn", resource |-> "", id |-> 0]

\* The heap cell c.armAuthorizer points to: who stored it, and its content.
Cell == [writer |-> writer, value |-> c.armAuthorizer]

\* What goroutine i may read through a pointer to cell: its own write as
\* written; another goroutine's write as written, as zero, or torn.
Visible(i, cell) ==
    IF cell.writer = i THEN {cell.value}
    ELSE {cell.value, NilAuthorizer, TornAuthorizer}

Idle == [pc |-> "idle", op |-> "none", ptr |-> [writer |-> 0, value |-> NilAuthorizer],
         local |-> NilAuthorizer,
         ret |-> [authorizer |-> NilAuthorizer, err |-> NilError]]

\* A Config that New has just returned, shared by idle goroutines.
InitRace ==
    /\ \E endpoint \in Endpoints : c = New(TRUE, TRUE, endpoint, <<>>).c
    /\ client \in [Authorizer : {NilAuthorizer}, UserAgent : InitialAgents]
    /\ nextId = 0
    /\ req = Request("none", "", "", NoOutcome)
    /\ calls = <<>>
    /\ log = <<>>
    /\ ret = [authorizer |-> NilAuthorizer, err |-> NilError]
    /\ goroutines = [i \in Callers |-> Idle]
    /\ writer = 0

\* Goroutine i calls c.SetAuthorizers() or c.GetArmAuthorizer().
RaceCall(i, op) ==
    /\ goroutines[i].pc = "idle"
    /\ goroutines' = [goroutines EXCEPT ![i] = [Idle EXCEPT !.pc = "load", !.op = op]]
    /\ UNCHANGED <<c, client, nextId, req, calls, log, ret, writer>>

\* if c.armAuthorizer != nil        (line 95)
RaceLoad(i) ==
    /\ goroutines[i].pc = "load"
    /\ goroutines' = [goroutines EXCEPT
          ![i].pc = IF writer # 0 THEN "deref" ELSE "resolve",
          ![i].ptr = Cell]
    /\ UNCHANGED <<c, client, nextId, req, calls, log, ret, writer>>

\* return *c.armAuthorizer, nil     (line 97): the field is loaded again or
\* the pointer of line 95 is reused, and the value behind it is read.
RaceDeref(i) ==
    /\ goroutines[i].pc = "deref"
    /\ \E cell \in {goroutines[i].ptr, Cell} :
       \E seen \in Visible(i, cell) :
          goroutines' = [goroutines EXCEPT
             ![i].pc = IF goroutines[i].op = "SetAuthorizers" THEN "store" ELSE "done",
             ![i].local = seen,
             ![i].ret = [authorizer |-> IF goroutines[i].op = "SetAuthorizers"
                                        THEN NilAuthorizer ELSE seen,
                         err |-> NilError]]
    /\ UNCHANGED <<c, client, nextId, req, calls, log, ret, writer>>

\* return c.GetAuthorizerForResource(c.settings.Environment.ResourceManagerEndpoint)
\* (line 99), and setArmAuthorizer's error check (lines 84-86).
RaceResolve(i, outcome) ==
    /\ goroutines[i].pc = "resolve"
    /\ LET r == GetAuthorizerForResource(c.settings, outcome, nextId + 1)
       IN  /\ nextId + Allocations(r.calls, outcome) <= MaxHandles
           /\ nextId' = nextId + Allocations(r.calls, outcome)
           /\ goroutines' = [goroutines EXCEPT
                 ![i].pc = IF r.err = NilError /\ goroutines[i].op = "SetAuthorizers"
                           THEN "store" ELSE "done",
                 ![i].local = r.authorizer,
                 ![i].ret = [authorizer |-> IF goroutines[i].op = "SetAuthorizers"
                                            THEN NilAuthorizer ELSE r.authorizer,
                             err |-> r.err]]
    /\ UNCHANGED <<c, client, req, calls, log, ret, writer>>

\* c.armAuthorizer = &armAuthorizer; return nil      (lines 87-88)
RaceStore(i) ==
    /\ goroutines[i].pc = "store"
    /\ c' = [c EXCEPT !.armAuthorizer = goroutines[i].local]
    /\ writer' = i
    /\ goroutines' = [goroutines EXCEPT ![i].pc = "done"]
    /\ UNCHANGED <<client, nextId, req, calls, log, ret>>

\* The call has returned; the goroutine may call again.
RaceReturn(i) ==
    /\ goroutines[i].pc = "done"
    /\ goroutines' = [goroutines EXCEPT ![i].pc = "idle"]
    /\ UNCHANGED <<c, client, nextId, req, calls, log, ret, writer>>

NextRace ==
    \/ \E i \in Callers, op \in {"SetAuthorizers", "GetArmAuthorizer"} : RaceCall(i, op)
    \/ \E i \in Callers : RaceLoad(i)
    \/ \E i \in Callers : RaceDeref(i)
    \/ \E i \in Callers, outcome \in Outcomes : RaceResolve(i, outcome)
    \/ \E i \in Callers : RaceStore(i)
    \/ \E i \in Callers : RaceReturn(i)

SpecRace == InitRace /\ [][NextRace]_vars

\* An authorizer some successful resolution for the management endpoint
\* has returned.
Issued(h) ==
    /\ h.source \in Methods
    /\ h.resource = c.settings
    /\ h.id \in 1..nextId

\* C11: with goroutines populating the cache of one Config concurrently, in
\* every interleaving the slot is nil or points to a complete authorizer
\* that a successful resolution for the management endpoint returned, and
\* every authorizer GetArmAuthorizer returns with a nil error is such an
\* authorizer.
C11_RaceKeepsValidHandles ==
    /\ writer # 0 => Issued(c.armAuthorizer)
    /\ \A i \in DOMAIN goroutines :
          (/\ goroutines[i].pc = "done"
           /\ goroutines[i].op = "GetArmAuthorizer"
           /\ goroutines[i].ret.err = NilError) => Issued(goroutines[i].ret.authorizer)

(* ============================== round trip ============================ *)

\* C12: after a successful AuthorizeClientForResource(resource, client,
\* userAgent) whose resolution succeeded, client.Authorizer is the authorizer
\* GetAuthorizerForResource(resource) returns for the same outcomes: the one
\* built in this call by the first succeeding source, for this resource.
C12_RoundTrip ==
    (Bound /\ SomeSucceeds(req.outcome) /\ ret.err = NilError) =>
        /\ client.Authorizer =
              GetAuthorizerForResource(req.resource, req.outcome, nextId).authorizer
        /\ client.Authorizer =
              Authorizer(Priority[FirstOk(req.outcome)], req.resource, nextId)
        /\ calls = GetAuthorizerForResource(req.resource, req.outcome, nextId).calls

\* C12 witness: a successful bind for a resource other than the management
\* endpoint, served by the environment source, on a client bound before.
C12_Witness ==
    /\ Bound
    /\ ret.err = NilError
    /\ req.resource # c.settings
    /\ FirstOk(req.outcome) = 3
    /\ client.Authorizer = Authorizer("env", req.resource, nextId)
    /\ nextId = 2

(* ============================= construction =========================== *)

Constructed == req.op = "New"

\* C13: when the settings loader fails, New returns its error and a nil
\* Config, and no option has been applied; a Config is returned only when
\* the settings loaded, and then its armAuthorizer is nil, its settings are
\* the loaded ones and its userAgent is "azauth" unless an option set it
\* (the last option given wins).
C13_NewFailsWithoutSettings ==
    Constructed =>
        /\ ~req.settingsOk => (c = NilConfig /\ ret.err = SettingsError)
        /\ c.config = "ok" =>
              /\ req.settingsOk
              /\ ret.err = NilError
              /\ c.armAuthorizer = NilAuthorizer
              /\ c.settings = req.resource
              /\ c.userAgent = IF req.opts = <<>> THEN "azauth"
                               ELSE req.opts[Len(req.opts)]
        /\ (c.config = "ok") <=> (ret.err = NilError)

\* C13 witness: New was given an option, the settings loader failed, and no
\* Config came back.
C13_Witness ==
    /\ Constructed
    /\ ~req.settingsOk
    /\ req.opts # <<>>
    /\ c = NilConfig
    /\ ret.err = SettingsError

(* ============================ cache lifecycle ========================= *)

\* C14: the cache slot is empty in the Config New returns; a filled slot is
\* never emptied; and with one caller at a time its content never changes
\* once filled: a later SetAuthorizers call invokes no source, allocates
\* nothing, returns nil and leaves the same authorizer cached.
C14_CacheLifecycle ==
    [][/\ Constructed' => CacheEmpty'
       /\ ~CacheEmpty =>
             /\ ~CacheEmpty'
             /\ c'.armAuthorizer = c.armAuthorizer
             /\ (req'.op = "SetAuthorizers") =>
                   /\ calls' = <<>>
                   /\ nextId' = nextId
                   /\ ret'.err = NilError]_vars

\* C14 witness: SetAuthorizers called again on a filled slot, while every
\* source would now succeed; nothing was invoked and the first authorizer
\* is still cached.
C14_Witness ==
    /\ req.op = "SetAuthorizers"
    /\ \A m \in Methods : req.outcome[m]
    /\ calls = <<>>
    /\ ~CacheEmpty
    /\ c.armAuthorizer.id < nextId

(* ======================= what the resolver reports ==================== *)

\* C15: for every combination of outcomes GetAuthorizerForResource returns
\* either an authorizer with a nil error or a nil authorizer with
\* NoAuthorizerError, never a source's own error; and each failing source's
\* error is in the log, written after that source was called and before the
\* next one was (its time stamp is the source's position among the calls).
C15_OnlyAggregateError ==
    Resolved =>
        /\ \/ /\ ret.authorizer # NilAuthorizer
              /\ ret.authorizer.source \in Methods
              /\ ret.err = NilError
           \/ /\ ret.authorizer = NilAuthorizer
              /\ ret.err = NoAuthorizerError
        /\ \A m \in Methods : ret.err # SourceError(m)
        /\ \A i \in DOMAIN calls :
              ~req.outcome[calls[i].method] =>
                  \E j \in DOMAIN log :
                      log[j] = [method |-> calls[i].method, level |-> "error",
                                msg |-> SourceError(calls[i].method).msg, ts |-> i]
        /\ \A j, k \in DOMAIN log : j < k => log[j].ts < log[k].ts

\* C15 witness: file and cli failed and were logged, then env succeeded.
C15_Witness ==
    /\ Resolved
    /\ ~req.outcome["file"] /\ ~req.outcome["cli"] /\ req.outcome["env"]
    /\ Len(log) = 3
    /\ log[1].level = "error" /\ log[2].level = "error" /\ log[3].level = "info"
    /\ ret.err = NilError

(* ====================== who touches the cache slot ==================== *)

\* C16: GetAuthorizerForResource and AuthorizeClientForResource neither
\* read nor write the cache slot: such a call leaves the Config as it was
\* and, even with a filled slot and the management endpoint as resource,
\* asks the sources and on success yields a newly built authorizer, not the
\* cached one.  Only SetAuthorizers changes the slot, so a filled slot holds
\* an authorizer a source built for the configured management endpoint.
C16_CacheOnlySetAuthorizers ==
    [][/\ (req'.op \in {"GetAuthorizerForResource", "AuthorizeClientForResource"}) =>
             /\ c' = c
             /\ Len(calls') >= 1
             /\ SomeSucceeds(req'.outcome) =>
                   /\ nextId' = nextId + 1
                   /\ Resolved' => (ret'.authorizer.id = nextId'
                                    /\ ret'.authorizer # c.armAuthorizer)
                   /\ Bound' => (client'.Authorizer.id = nextId'
                                 /\ client'.Authorizer # c.armAuthorizer)
       /\ (c'.armAuthorizer # c.armAuthorizer) => req'.op = "SetAuthorizers"
       /\ ~CacheEmpty' =>
             /\ c'.armAuthorizer.resource = c'.settings
             /\ c'.armAuthorizer.source \in Methods]_vars

\* C16 witness: with a filled slot, GetAuthorizerForResource was called for
\* the management endpoint itself and succeeded with another authorizer;
\* the slot still holds the earlier one.
C16_Witness ==
    /\ Resolved
    /\ req.resource = c.settings
    /\ ret.err = NilError
    /\ ~CacheEmpty
    /\ ret.authorizer # c.armAuthorizer
    /\ c.armAuthorizer.id < ret.authorizer.id

====
